---------------------------- MODULE Spec2Model ----------------------------
(***************************************************************************)
(* A model of the pf2 sampling profiler core:                              *)
(*   - SignalScheduler (ext/pf2/src/signal_scheduler.rs): start, stop,     *)
(*     the SIGALRM handler, the buffer flusher thread and dmark;           *)
(*   - ProfileSerializer2 (ext/pf2/src/serialization/serializer.rs).       *)
(*                                                                         *)
(* Threads.  Ruby threads are the elements of Threads.  The controlling    *)
(* calls start() and stop() run on ControllerThread, the GC traversal      *)
(* dmark runs on GcThread, and each flusher is a native thread of its own. *)
(* A timer signal runs signal_handler on the Ruby thread it was aimed at;  *)
(* that thread does not take a step of its own until the handler returns.  *)
(*                                                                         *)
(* A panic inside an extern "C" function (signal_handler, rb_stop,         *)
(* rb_start, dmark) cannot unwind into the C caller: the process aborts.   *)
(***************************************************************************)
EXTENDS Integers, Sequences, FiniteSets, TLC

\* ------------------------------------------------------------------ bounds
MaxStarts == 2      \* start() calls, i.e. Profile objects created
MaxSamples == 2     \* samples held by all Profiles together, staged or durable
MaxSourceSamples == 2   \* samples of a Profile given to the serializer alone
MaxTimestamp == 2       \* timestamps of such a Profile: 0..MaxTimestamp
MaxSerializeCalls == 2  \* serialize calls on one ProfileSerializer2
Capacity == 2       \* capacity of Profile.temporary_sample_buffer

Threads == {1, 2}
ControllerThread == 1
GcThread == 2

\* The argument arrays start() may be given (ruby_threads_rary).
TargetArrays == { <<1, 2>>, <<2, 2>> }

\* Frame handles (VALUEs) the stack capture may return.  FrameA1 and FrameA2
\* are two handles the runtime describes identically.
Frames == {"FrameA1", "FrameA2", "FrameB"}

\* Captured stacks, leaf first: a frame handle and a line number per frame.
StackA == [frames |-> <<"FrameA1">>, linenos |-> <<10>>]
StackAB == [frames |-> <<"FrameA2", "FrameB">>, linenos |-> <<10, 20>>]
StackBA == [frames |-> <<"FrameB", "FrameA1">>, linenos |-> <<20, 11>>]
Stacks == { StackA, StackAB, StackBA }

\* The stack a running thread is found at when a timer interrupts it.
CurrentStack(ruby_thread) == IF ruby_thread = 1 THEN StackA ELSE StackAB

VARIABLES
    proc,           \* "alive", or the cause of the process abort
    now,            \* the monotonic clock: the value of its next reading
    sched_profile,  \* SignalScheduler.profile: 0 is None, p > 0 is Some(p)
    profiles,       \* the Profile objects created so far, by id
    lock,           \* the RwLock of each Profile
    flusher,        \* the flusher thread of each Profile
    timers,         \* installed timers: <<thread, profile>> (SignalHandlerArgs)
    hpc,            \* signal handler position, per Ruby thread
    hargs,          \* the Profile of the handler's SignalHandlerArgs
    hdrop,          \* the last sample dropped for the lock: thread, lock holder
    spc,            \* position of the controller inside stop()
    sprof,          \* the Profile stop() is working on
    ret,            \* the last stop() to return: its value, Profile, document
    gpc,            \* position of dmark
    gprof,          \* the Profile dmark is reading
    ser,            \* ProfileSerializer2.profile
    ser_source,     \* the Profile handed to ProfileSerializer2::serialize
    ser_pc,         \* position inside serialize
    ser_i,          \* index of the source sample being converted
    ser_stack,      \* the stack built so far for that sample
    ser_calls       \* the documents returned by serialize so far

schedVars == <<proc, now, sched_profile, profiles, lock, flusher, timers,
               hpc, hargs, hdrop, spc, sprof, ret, gpc, gprof>>
serVars == <<ser, ser_source, ser_pc, ser_i, ser_stack, ser_calls>>
vars == <<schedVars, serVars>>

\* ------------------------------------------------------------ small helpers
None == <<>>
Some(x) == <<x>>

Range(s) == { s[i] : i \in DOMAIN s }

\* Iterator::position: the 1-based place of the first element equal to x, or 0.
Position(s, x) ==
    IF \E i \in DOMAIN s : s[i] = x
    THEN CHOOSE i \in DOMAIN s : s[i] = x /\ \A k \in 1..(i - 1) : s[k] # x
    ELSE 0

\* -------------------------------------------------- Profile and its samples
\* Profile::new(): the start timestamp is read from the monotonic clock.
ProfileNew(t) ==
    [start_timestamp |-> t, samples |-> <<>>, temporary_sample_buffer |-> <<>>]

\* A raw sample: line_count is the length of frames and of linenos.
RawSample(t, ruby_thread, stack) ==
    [timestamp |-> t, ruby_thread |-> ruby_thread,
     frames |-> stack.frames, linenos |-> stack.linenos]

\* Sample::capture(ruby_thread) at clock reading t.
SampleCapture(t, ruby_thread) == RawSample(t, ruby_thread, CurrentStack(ruby_thread))

\* temporary_sample_buffer.push(sample): Err when the buffer is at capacity.
PushIsErr(profile) == Len(profile.temporary_sample_buffer) >= Capacity

Push(profile, sample) ==
    [profile EXCEPT !.temporary_sample_buffer = Append(@, sample)]

\* Profile::flush_temporary_sample_buffer(): the staged samples are appended
\* to the durable samples in staging order and the staging buffer is emptied.
FlushTemporarySampleBuffer(profile) ==
    [profile EXCEPT !.samples = @ \o profile.temporary_sample_buffer,
                    !.temporary_sample_buffer = <<>>]

\* --------------------------------------------------------- the RwLock
LockFree == [writer |-> "none", readers |-> 0]

\* RwLock::try_write succeeds iff nobody holds the lock in any mode.
CanWrite(l) == l.writer = "none" /\ l.readers = 0
\* RwLock::read / try_read get the lock iff no writer holds it.
CanRead(l) == l.writer = "none"

\* Who holds the lock l: its writer, or "reader" when read guards are out.
Holder(l) == IF l.readers > 0 THEN "reader" ELSE l.writer

NoDrop == [thread |-> 0, holder |-> "none"]

\* ------------------------------------------------------ ProfileSerializer2
\* ProfileSerializer2::new()
ProfileSerializer2New ==
    [start_timestamp_ns |-> 0, duration_ns |-> 0,
     samples |-> <<>>, locations |-> <<>>, functions |-> <<>>]

\* What the runtime reports for a frame handle: full label, path, first line.
FrameLabel(frame) == IF frame = "FrameB" THEN Some("B#run") ELSE Some("A#call")
FramePath(frame) == IF frame = "FrameB" THEN None ELSE Some("a.rb")
FrameFirstLineno(frame) == IF frame = "FrameB" THEN Some(20) ELSE Some(10)

ExtractFunctionFromFrame(frame) ==
    [implementation |-> "Ruby",
     name |-> FrameLabel(frame),
     filename |-> FramePath(frame),
     start_lineno |-> FrameFirstLineno(frame),
     start_address |-> None]

\* The index (0-based) of entry in table after lookup-or-push.
IndexIn(table, entry) ==
    IF Position(table, entry) = 0 THEN Len(table) ELSE Position(table, entry) - 1

\* The table after lookup-or-push of entry.
TableWith(table, entry) ==
    IF Position(table, entry) = 0 THEN Append(table, entry) ELSE table

\* process_ruby_frame without the lookup in locations: every frame gets a
\* new Location.
ProcessRubyFrameNoLookup(p, frame, lineno) ==
    LET function == ExtractFunctionFromFrame(frame)
        function_index == IndexIn(p.functions, function)
        location == [function_index |-> function_index,
                     lineno |-> lineno,
                     address |-> None]
    IN  [profile |-> [p EXCEPT !.functions = TableWith(@, function),
                               !.locations = Append(@, location)],
         index |-> Len(p.locations)]

\* process_ruby_frame with a new Location put at the head of locations in
\* the place of its end: the entries already there move up by one.
ProcessRubyFrameInsertFirst(p, frame, lineno) ==
    LET function == ExtractFunctionFromFrame(frame)
        function_index == IndexIn(p.functions, function)
        location == [function_index |-> function_index,
                     lineno |-> lineno,
                     address |-> None]
        found == Position(p.locations, location) # 0
    IN  [profile |-> [p EXCEPT !.functions = TableWith(@, function),
                               !.locations = IF found THEN @
                                             ELSE <<location>> \o @],
         index |-> IF found THEN Position(p.locations, location) - 1 ELSE 0]

\* process_ruby_frame returning the index of the frame's Function in the
\* place of the index of its Location.
ProcessRubyFrameFunctionIndex(p, frame, lineno) ==
    LET function == ExtractFunctionFromFrame(frame)
        function_index == IndexIn(p.functions, function)
        location == [function_index |-> function_index,
                     lineno |-> lineno,
                     address |-> None]
    IN  [profile |-> [p EXCEPT !.functions = TableWith(@, function),
                               !.locations = TableWith(@, location)],
         index |-> function_index]

\* process_ruby_frame: the serializer's profile afterwards and the index of
\* the frame's location in locations.
ProcessRubyFrame(p, frame, lineno) ==
    LET function == ExtractFunctionFromFrame(frame)
        function_index == IndexIn(p.functions, function)
        location == [function_index |-> function_index,
                     lineno |-> lineno,
                     address |-> None]
    IN  [profile |-> [p EXCEPT !.functions = TableWith(@, function),
                               !.locations = TableWith(@, location)],
         index |-> IndexIn(p.locations, location)]

\* The inner loop of serialize from frame j on: the profile and the stack.
RECURSIVE ConvertFrames(_, _, _, _)
ConvertFrames(p, sample, j, stack) ==
    IF j > Len(sample.frames)
    THEN [profile |-> p, stack |-> stack]
    ELSE LET r == ProcessRubyFrame(p, sample.frames[j], sample.linenos[j])
         IN  ConvertFrames(r.profile, sample, j + 1, Append(stack, r.index))

\* The Sample put at the head of the document's samples in the place of
\* their end.
PushSampleFirst(p, stack, sample) ==
    [p EXCEPT !.samples =
        <<[stack |-> stack, ruby_thread_id |-> Some(sample.ruby_thread)]>> \o @]

\* self.profile.samples.push(Sample { stack, ruby_thread_id })
PushSample(p, stack, sample) ==
    [p EXCEPT !.samples =
        Append(@, [stack |-> stack, ruby_thread_id |-> Some(sample.ruby_thread)])]

\* The outer loop of serialize from source sample i on.
RECURSIVE ConvertSamples(_, _, _)
ConvertSamples(p, samples, i) ==
    IF i > Len(samples)
    THEN p
    ELSE LET r == ConvertFrames(p, samples[i], 1, <<>>)
         IN  ConvertSamples(PushSample(r.profile, r.stack, samples[i]),
                            samples, i + 1)

\* serde_json::to_string(&self.profile): every field of the profile, as is.
ToDocument(p) ==
    [start_timestamp_ns |-> p.start_timestamp_ns,
     duration_ns |-> p.duration_ns,
     functions |-> p.functions,
     locations |-> p.locations,
     samples |-> p.samples]

\* serialize(&mut self, source), as one step: the document returned.
Serialize(p, source) == ToDocument(ConvertSamples(p, source.samples, 1))


\* ================================================================ scheduler
NoDocument == ToDocument(ProfileSerializer2New)
NoReturn == [value |-> "none", profile |-> 0, document |-> NoDocument]

\* SignalScheduler::new(), before any call; the serializer is not in use.
Init ==
    /\ proc = "alive"
    /\ now = 0
    /\ sched_profile = 0
    /\ profiles = <<>>
    /\ lock = <<>>
    /\ flusher = <<>>
    /\ timers = {}
    /\ hpc = [t \in Threads |-> "idle"]
    /\ hargs = [t \in Threads |-> 0]
    /\ hdrop = NoDrop
    /\ spc = "idle"
    /\ sprof = 0
    /\ ret = NoReturn
    /\ gpc = "idle"
    /\ gprof = 0
    /\ ser = ProfileSerializer2New
    /\ ser_source = ProfileNew(0)
    /\ ser_pc = "ready"
    /\ ser_i = 0
    /\ ser_stack = <<>>
    /\ ser_calls = <<>>

\* The number of samples, staged and durable, of all the Profiles in ps.
RECURSIVE HeldSamples(_)
HeldSamples(ps) ==
    IF ps = <<>>
    THEN 0
    ELSE Len(Head(ps).samples) + Len(Head(ps).temporary_sample_buffer)
         + HeldSamples(Tail(ps))

\* A Ruby thread runs its own code only while no signal handler is on it.
Runnable(t) == hpc[t] = "idle"

\* The scheduler's state as the control surface sees it: the code keeps no
\* more than SignalScheduler.profile, None before start() and Some after.
SchedulerState == IF sched_profile = 0 THEN "Idle" ELSE "Running"

\* Instant::now(): the monotonic clock is a logical clock, every reading of
\* it is later than the one before.
ClockAfterReading(t) == t + 1

\* TimerInstaller::install_timer_to_ruby_threads: one timer per thread of the
\* set, each carrying SignalHandlerArgs { profile, context_ruby_thread }.
InstallTimerToRubyThreads(installed, target_ruby_threads, profile) ==
    installed \cup { <<t, profile>> : t \in target_ruby_threads }

\* start(): a new Profile, its flusher thread, the signal handler, the timers
\* of the target threads, and self.profile = Some(profile); Qtrue is returned.
\* No state is looked at before any of this.
Start(ruby_threads_rary) ==
    /\ proc = "alive"
    /\ spc = "idle"
    /\ Runnable(ControllerThread)
    /\ Len(profiles) < MaxStarts
    /\ LET profile == Len(profiles) + 1
           target_ruby_threads == Range(ruby_threads_rary)
       IN  /\ profiles' = Append(profiles, ProfileNew(now))
           /\ lock' = Append(lock, LockFree)
           /\ flusher' = Append(flusher, [pc |-> "sleep", log |-> "none"])
           /\ timers' = InstallTimerToRubyThreads(timers, target_ruby_threads,
                                                  profile)
           /\ sched_profile' = profile
    /\ now' = ClockAfterReading(now)
    /\ UNCHANGED <<proc, hpc, hargs, hdrop, spc, sprof, ret, gpc, gprof,
                   serVars>>

\* start() when sigaction fails: install_signal_handler panics after the
\* Profile was made and its flusher thread spawned.
StartSigactionFails ==
    /\ proc = "alive"
    /\ spc = "idle"
    /\ Runnable(ControllerThread)
    /\ Len(profiles) < MaxStarts
    /\ profiles' = Append(profiles, ProfileNew(now))
    /\ lock' = Append(lock, LockFree)
    /\ flusher' = Append(flusher, [pc |-> "sleep", log |-> "none"])
    /\ now' = ClockAfterReading(now)
    /\ proc' = "panic: sigaction failed"
    /\ UNCHANGED <<sched_profile, timers, hpc, hargs, hdrop, spc, sprof, ret,
                   gpc, gprof, serVars>>

\* ------------------------------------------------------------ flusher thread
\* The flusher loop writing the Profile without asking the lock whether it
\* is free.
FlusherWriteUnchecked(p) ==
    /\ proc = "alive"
    /\ p \in DOMAIN flusher
    /\ flusher[p].pc = "sleep"
    /\ lock' = [lock EXCEPT ![p].writer = "flusher"]
    /\ flusher' = [flusher EXCEPT ![p] = [pc |-> "locked", log |-> "none"]]
    /\ UNCHANGED <<proc, now, sched_profile, profiles, timers, hpc, hargs,
                   hdrop, spc, sprof, ret, gpc, gprof, serVars>>

\* One turn of the flusher loop up to try_write: the guard is taken, or the
\* failure is printed and the thread goes back to sleep.
FlusherTryWrite(p) ==
    /\ proc = "alive"
    /\ p \in DOMAIN flusher
    /\ flusher[p].pc = "sleep"
    /\ IF CanWrite(lock[p])
       THEN /\ lock' = [lock EXCEPT ![p].writer = "flusher"]
            /\ flusher' = [flusher EXCEPT ![p] = [pc |-> "locked",
                                                   log |-> "none"]]
       ELSE /\ flusher' = [flusher EXCEPT ![p].log = "failed"]
            /\ UNCHANGED lock
    /\ UNCHANGED <<proc, now, sched_profile, profiles, timers, hpc, hargs,
                   hdrop, spc, sprof, ret, gpc, gprof, serVars>>

\* The Ok arm: flush, drop the guard, sleep.
FlusherFlush(p) ==
    /\ proc = "alive"
    /\ p \in DOMAIN flusher
    /\ flusher[p].pc = "locked"
    /\ profiles' = [profiles EXCEPT ![p] = FlushTemporarySampleBuffer(@)]
    /\ lock' = [lock EXCEPT ![p].writer = "none"]
    /\ flusher' = [flusher EXCEPT ![p].pc = "sleep"]
    /\ UNCHANGED <<proc, now, sched_profile, timers, hpc, hargs, hdrop, spc,
                   sprof, ret, gpc, gprof, serVars>>

\* ------------------------------------------------------------ signal handler
\* signal_handler with write() in the place of try_write(): under contention
\* the handler stays on its thread and waits for the lock.
SignalHandlerEnterBlocking(t, p) ==
    /\ proc = "alive"
    /\ <<t, p>> \in timers
    /\ hpc[t] = "idle"
    /\ HeldSamples(profiles) < MaxSamples \/ PushIsErr(profiles[p])
    /\ IF CanWrite(lock[p])
       THEN /\ lock' = [lock EXCEPT ![p].writer = "handler"]
            /\ hpc' = [hpc EXCEPT ![t] = "locked"]
       ELSE /\ hpc' = [hpc EXCEPT ![t] = "waiting"]
            /\ UNCHANGED lock
    /\ hargs' = [hargs EXCEPT ![t] = p]
    /\ UNCHANGED <<proc, now, sched_profile, profiles, flusher, timers, hdrop,
                   spc, sprof, ret, gpc, gprof, serVars>>

\* A timer expires and signal_handler runs on the timer's thread up to
\* args.profile.try_write(): it holds the guard, or prints and has returned.
\* SIGALRM stays blocked on the thread while its handler runs.
SignalHandlerEnter(t, p) ==
    /\ proc = "alive"
    /\ <<t, p>> \in timers
    /\ hpc[t] = "idle"
    /\ HeldSamples(profiles) < MaxSamples \/ PushIsErr(profiles[p])
    /\ IF CanWrite(lock[p])
       THEN /\ lock' = [lock EXCEPT ![p].writer = "handler"]
            /\ hpc' = [hpc EXCEPT ![t] = "locked"]
            /\ hargs' = [hargs EXCEPT ![t] = p]
            /\ UNCHANGED hdrop
       ELSE /\ hdrop' = [thread |-> t, holder |-> Holder(lock[p])]
            /\ UNCHANGED <<lock, hpc, hargs>>
    /\ UNCHANGED <<proc, now, sched_profile, profiles, flusher, timers, spc,
                   sprof, ret, gpc, gprof, serVars>>

\* signal_handler with the result of push ignored: the sample is stored
\* whether or not the buffer has room.
SignalHandlerStageUnchecked(t) ==
    /\ proc = "alive"
    /\ hpc[t] = "locked"
    /\ profiles' = [profiles EXCEPT ![hargs[t]] = Push(@, SampleCapture(now, t))]
    /\ lock' = [lock EXCEPT ![hargs[t]].writer = "none"]
    /\ hpc' = [hpc EXCEPT ![t] = "idle"]
    /\ hargs' = [hargs EXCEPT ![t] = 0]
    /\ now' = ClockAfterReading(now)
    /\ UNCHANGED <<proc, sched_profile, flusher, timers, hdrop, spc, sprof,
                   ret, gpc, gprof, serVars>>

\* Sample::capture and temporary_sample_buffer.push under the guard; a
\* failed push panics.  Otherwise the guard is dropped on return.
SignalHandlerStage(t) ==
    /\ proc = "alive"
    /\ hpc[t] = "locked"
    /\ LET p == hargs[t]
           sample == SampleCapture(now, t)
       IN  IF PushIsErr(profiles[p])
           THEN /\ proc' = "panic: temporary sample buffer full"
                /\ UNCHANGED <<profiles, lock, hpc, hargs>>
           ELSE /\ profiles' = [profiles EXCEPT ![p] = Push(@, sample)]
                /\ lock' = [lock EXCEPT ![p].writer = "none"]
                /\ hpc' = [hpc EXCEPT ![t] = "idle"]
                /\ hargs' = [hargs EXCEPT ![t] = 0]
                /\ UNCHANGED proc
    /\ now' = ClockAfterReading(now)
    /\ UNCHANGED <<sched_profile, flusher, timers, hdrop, spc, sprof, ret,
                   gpc, gprof, serVars>>

\* --------------------------------------------------------------------- stop
\* stop() up to try_write: panic without a Profile; the guard; or print and
\* return Qfalse.
StopCall ==
    /\ proc = "alive"
    /\ spc = "idle"
    /\ Runnable(ControllerThread)
    /\ IF sched_profile = 0
       THEN /\ proc' = "panic: stop() called before start()"
            /\ UNCHANGED <<lock, spc, sprof, ret>>
       ELSE IF CanWrite(lock[sched_profile])
       THEN /\ lock' = [lock EXCEPT ![sched_profile].writer = "stop"]
            /\ spc' = "flushing"
            /\ sprof' = sched_profile
            /\ UNCHANGED <<proc, ret>>
       ELSE /\ ret' = [value |-> "Qfalse", profile |-> sched_profile,
                       document |-> NoDocument]
            /\ UNCHANGED <<proc, lock, spc, sprof>>
    /\ UNCHANGED <<now, sched_profile, profiles, flusher, timers, hpc, hargs,
                   hdrop, gpc, gprof, serVars>>

\* stop() with the final flush left out: the write guard is taken and
\* dropped, the staging buffer stays as it is.
StopFlushSkipped ==
    /\ proc = "alive"
    /\ spc = "flushing"
    /\ Runnable(ControllerThread)
    /\ lock' = [lock EXCEPT ![sprof].writer = "none"]
    /\ spc' = "flushed"
    /\ UNCHANGED <<proc, now, sched_profile, profiles, flusher, timers, hpc,
                   hargs, hdrop, sprof, ret, gpc, gprof, serVars>>

\* The Ok arm: flush and drop the write guard.
StopFlush ==
    /\ proc = "alive"
    /\ spc = "flushing"
    /\ Runnable(ControllerThread)
    /\ profiles' = [profiles EXCEPT ![sprof] = FlushTemporarySampleBuffer(@)]
    /\ lock' = [lock EXCEPT ![sprof].writer = "none"]
    /\ spc' = "flushed"
    /\ UNCHANGED <<proc, now, sched_profile, flusher, timers, hpc, hargs, hdrop,
                   sprof, ret, gpc, gprof, serVars>>

\* profile.try_read().unwrap(): the read guard, or a panic when a writer
\* holds the lock.
StopTryRead ==
    /\ proc = "alive"
    /\ spc = "flushed"
    /\ Runnable(ControllerThread)
    /\ IF CanRead(lock[sprof])
       THEN /\ lock' = [lock EXCEPT ![sprof].readers = @ + 1]
            /\ spc' = "reading"
            /\ UNCHANGED proc
       ELSE /\ proc' = "panic: try_read failed"
            /\ UNCHANGED <<lock, spc>>
    /\ UNCHANGED <<now, sched_profile, profiles, flusher, timers, hpc, hargs,
                   hdrop, sprof, ret, gpc, gprof, serVars>>

\* The rest of stop() under the read guard: samples.last().unwrap() for the
\* elapsed time, then the document is made and returned.  The serializer
\* stop() names is ProfileSerializer; the one the sources hold,
\* ProfileSerializer2, stands for it, new for every call.
StopSerialize ==
    /\ proc = "alive"
    /\ spc = "reading"
    /\ Runnable(ControllerThread)
    /\ IF profiles[sprof].samples = <<>>
       THEN /\ proc' = "panic: no last sample"
            /\ UNCHANGED <<lock, spc, sprof, ret>>
       ELSE /\ ret' = [value |-> "document", profile |-> sprof,
                       document |-> Serialize(ProfileSerializer2New,
                                              profiles[sprof])]
            /\ lock' = [lock EXCEPT ![sprof].readers = @ - 1]
            /\ spc' = "idle"
            /\ sprof' = 0
            /\ UNCHANGED proc
    /\ UNCHANGED <<now, sched_profile, profiles, flusher, timers, hpc, hargs,
                   hdrop, gpc, gprof, serVars>>

\* -------------------------------------------------------------------- dmark
\* dmark up to profile.read(): nothing to do without a Profile; otherwise it
\* waits until no writer holds the lock and takes a read guard.
DmarkRead ==
    /\ proc = "alive"
    /\ gpc = "idle"
    /\ Runnable(GcThread)
    /\ IF sched_profile = 0
       THEN UNCHANGED <<lock, gpc, gprof>>
       ELSE /\ CanRead(lock[sched_profile])
            /\ lock' = [lock EXCEPT ![sched_profile].readers = @ + 1]
            /\ gpc' = "marking"
            /\ gprof' = sched_profile
    /\ UNCHANGED <<proc, now, sched_profile, profiles, flusher, timers, hpc,
                   hargs, hdrop, spc, sprof, ret, serVars>>

\* profile.dmark() is done and the read guard dropped.
DmarkDone ==
    /\ proc = "alive"
    /\ gpc = "marking"
    /\ Runnable(GcThread)
    /\ lock' = [lock EXCEPT ![gprof].readers = @ - 1]
    /\ gpc' = "idle"
    /\ gprof' = 0
    /\ UNCHANGED <<proc, now, sched_profile, profiles, flusher, timers, hpc,
                   hargs, hdrop, spc, sprof, ret, serVars>>

Next ==
    \/ \E a \in TargetArrays : Start(a)
    \/ StartSigactionFails
    \/ \E p \in 1..MaxStarts : FlusherTryWrite(p)
    \/ \E p \in 1..MaxStarts : FlusherFlush(p)
    \/ \E t \in Threads, p \in 1..MaxStarts : SignalHandlerEnter(t, p)
    \/ \E t \in Threads : SignalHandlerStage(t)
    \/ StopCall
    \/ StopFlush
    \/ StopTryRead
    \/ StopSerialize
    \/ DmarkRead
    \/ DmarkDone

Spec == Init /\ [][Next]_vars
\* =============================================================== serializer
\* ProfileSerializer2 on its own: one serializer is handed a finalized Profile
\* and serialize runs on it frame by frame, MaxSerializeCalls times at most.
SourceSamples ==
    { RawSample(ts, t, st) : ts \in 0..MaxTimestamp, t \in Threads, st \in Stacks }

\* The sample sequences a Profile can hold: every timestamp was read from the
\* monotonic clock after the one before it.
SourceSequences ==
    { q \in UNION { [1..n -> SourceSamples] : n \in 0..MaxSourceSamples } :
        \A i \in 1..(Len(q) - 1) : q[i].timestamp <= q[i + 1].timestamp }

SourceProfiles ==
    { [start_timestamp |-> t0, samples |-> q, temporary_sample_buffer |-> <<>>] :
        t0 \in 0..MaxTimestamp, q \in SourceSequences }

SerInit ==
    /\ proc = "alive"
    /\ now = 0
    /\ sched_profile = 0
    /\ profiles = <<>>
    /\ lock = <<>>
    /\ flusher = <<>>
    /\ timers = {}
    /\ hpc = [t \in Threads |-> "idle"]
    /\ hargs = [t \in Threads |-> 0]
    /\ hdrop = NoDrop
    /\ spc = "idle"
    /\ sprof = 0
    /\ ret = NoReturn
    /\ gpc = "idle"
    /\ gprof = 0
    /\ ser = ProfileSerializer2New
    /\ ser_source \in { p \in SourceProfiles :
                          \A i \in DOMAIN p.samples :
                              p.start_timestamp <= p.samples[i].timestamp }
    /\ ser_pc = "ready"
    /\ ser_i = 0
    /\ ser_stack = <<>>
    /\ ser_calls = <<>>

\* serialize is called: the loop over source.samples begins.
SerializeCall ==
    /\ ser_pc = "ready"
    /\ Len(ser_calls) < MaxSerializeCalls
    /\ ser_pc' = "samples"
    /\ ser_i' = 1
    /\ ser_stack' = <<>>
    /\ UNCHANGED <<ser, ser_source, ser_calls, schedVars>>

\* One turn of the inner loop: the next frame of the sample is processed and
\* its location index pushed on the stack.
SerializeFrame ==
    /\ ser_pc = "samples"
    /\ ser_i <= Len(ser_source.samples)
    /\ Len(ser_stack) < Len(ser_source.samples[ser_i].frames)
    /\ LET sample == ser_source.samples[ser_i]
           i == Len(ser_stack) + 1
           r == ProcessRubyFrame(ser, sample.frames[i], sample.linenos[i])
       IN  /\ ser' = r.profile
           /\ ser_stack' = Append(ser_stack, r.index)
    /\ UNCHANGED <<ser_source, ser_pc, ser_i, ser_calls, schedVars>>

\* The end of one turn of the outer loop: the Sample is pushed.
SerializeSample ==
    /\ ser_pc = "samples"
    /\ ser_i <= Len(ser_source.samples)
    /\ Len(ser_stack) = Len(ser_source.samples[ser_i].frames)
    /\ ser' = PushSample(ser, ser_stack, ser_source.samples[ser_i])
    /\ ser_i' = ser_i + 1
    /\ ser_stack' = <<>>
    /\ UNCHANGED <<ser_source, ser_pc, ser_calls, schedVars>>

\* serde_json::to_string(&self.profile) is returned.
SerializeReturn ==
    /\ ser_pc = "samples"
    /\ ser_i > Len(ser_source.samples)
    /\ ser_calls' = Append(ser_calls, ToDocument(ser))
    /\ ser_pc' = "ready"
    /\ ser_i' = 0
    /\ UNCHANGED <<ser, ser_source, ser_stack, schedVars>>

SerNext ==
    \/ SerializeCall
    \/ SerializeFrame
    \/ SerializeSample
    \/ SerializeReturn

SerSpec == SerInit /\ [][SerNext]_vars

\* =================================================================== claims

\* ----------------------------------------------------------------------- C1
\* C1: a signal handler that finds the Profile's lock held (by the flusher,
\* by stop(), by another handler or by a traversal) returns at once: it takes
\* the write guard only when the lock is free, a handler that is still on its
\* thread holds the guard (it never waits for it), and the step in which it
\* drops its sample leaves every Profile, every lock and every handler as
\* they were.
C1_HandlerNeverBlocks ==
    [][ /\ \A t \in Threads :
              (hpc[t] = "idle" /\ hpc'[t] # "idle") => CanWrite(lock[hargs'[t]])
        /\ \A t \in Threads :
              hpc'[t] # "idle" => lock'[hargs'[t]].writer = "handler"
        /\ hdrop' # hdrop =>
              /\ profiles' = profiles
              /\ lock' = lock
              /\ hpc' = hpc
              /\ proc' = proc ]_vars

\* A handler ran on the controller's thread while stop() on that thread held
\* the write guard for its flush, dropped its sample, and stop() still holds
\* the guard.
C1_Witness ==
    /\ hdrop = [thread |-> ControllerThread, holder |-> "stop"]
    /\ spc = "flushing"
    /\ hpc[ControllerThread] = "idle"
    /\ proc = "alive"

\* ----------------------------------------------------------------------- C2
\* C2: a full staging buffer is never fatal: the process is never ended by a
\* failed push in the signal handler.
C2_BufferFullNotFatal == proc # "panic: temporary sample buffer full"

\* ----------------------------------------------------------------------- C3
\* C3: in every reachable state the staging buffer of every Profile holds at
\* most Capacity samples.
C3_StagingAtMostCapacity ==
    \A p \in DOMAIN profiles :
        Len(profiles[p].temporary_sample_buffer) <= Capacity

\* A handler met a buffer at capacity: its push was rejected and the buffer
\* still holds Capacity samples.
C3_Witness ==
    /\ proc = "panic: temporary sample buffer full"
    /\ \E t \in Threads :
         /\ hpc[t] = "locked"
         /\ Len(profiles[hargs[t]].temporary_sample_buffer) = Capacity

\* ----------------------------------------------------------------------- C4
\* C4: stop() on a scheduler that was never started returns an error value
\* to its caller: the call does not end the process.
C4_StopWhileIdleReturnsError == proc # "panic: stop() called before start()"

\* ----------------------------------------------------------------------- C5
\* C5: no step taken while the scheduler is Running replaces its Profile,
\* makes another Profile or flusher thread, or installs another timer: a
\* start() on a Running scheduler changes nothing.
C5_StartWhileRunningChangesNothing ==
    [][ SchedulerState = "Running" =>
          /\ sched_profile' = sched_profile
          /\ Len(profiles') = Len(profiles)
          /\ Len(flusher') = Len(flusher)
          /\ timers' = timers ]_vars

\* ----------------------------------------------------------------------- C6
\* C6: stop() on a Running scheduler waits for the lock: it never returns
\* the failure value because somebody else held the lock.
C6_StopWaitsForLock == ret.value # "Qfalse"

\* ----------------------------------------------------------------------- C7
\* C7: once stop() reads the Profile for serialization, and for ever after it
\* has returned the document, the Profile is not modified and its flusher
\* thread does not take the lock again.
C7_NothingRunsAfterFinalFlush ==
    [][ /\ spc = "reading" => profiles'[sprof] = profiles[sprof]
        /\ ret.value = "document" =>
              /\ profiles'[ret.profile] = profiles[ret.profile]
              /\ flusher'[ret.profile].pc = "locked"
                    => flusher[ret.profile].pc = "locked" ]_vars

\* ----------------------------------------------------------------------- C8
\* C8: stop() on a Running scheduler whose Profile has no durable sample
\* after the final flush returns a document: it does not end the process.
C8_StopWithoutSamplesReturns == proc # "panic: no last sample"

\* ----------------------------------------------------------------------- C9
\* C9: every document serialize returns carries the Profile's start timestamp
\* and, as its duration, the last sample's timestamp minus the start
\* timestamp (0 without samples), which is never negative.
C9_DurationFromLastSample ==
    \A k \in DOMAIN ser_calls :
        LET doc == ser_calls[k]
            n == Len(ser_source.samples)
        IN  /\ doc.start_timestamp_ns = ser_source.start_timestamp
            /\ doc.duration_ns >= 0
            /\ doc.duration_ns =
                 IF n = 0 THEN 0
                 ELSE ser_source.samples[n].timestamp - ser_source.start_timestamp

\* ---------------------------------------------------------------------- C10
\* The (function, line, address) triple of frame j of a raw sample.
FrameTriple(sample, j) ==
    <<ExtractFunctionFromFrame(sample.frames[j]), sample.linenos[j], None>>

\* The triples of all the frames of the samples q.
FrameTriples(q) ==
    UNION { { FrameTriple(q[i], j) : j \in DOMAIN q[i].frames } : i \in DOMAIN q }

\* The function descriptions of all the frames of the samples q.
FrameFunctions(q) ==
    UNION { { ExtractFunctionFromFrame(f) : f \in Range(q[i].frames) } : i \in DOMAIN q }

\* The triple a location of a document stands for.
LocationTriple(doc, location) ==
    <<doc.functions[location.function_index + 1], location.lineno, location.address>>

\* The number of frames of the samples q.
RECURSIVE FrameCount(_)
FrameCount(q) == IF q = <<>> THEN 0 ELSE Len(Head(q).frames) + FrameCount(Tail(q))

\* C10: in every document serialize returns, the locations are exactly the
\* distinct (function, line, address) triples of the captured frames, one
\* entry each, the functions are exactly the distinct function descriptions,
\* one entry each, and two frames with the same triple have the same index.
C10_DedupCorrect ==
    \A k \in DOMAIN ser_calls :
        LET doc == ser_calls[k]
            q == ser_source.samples
            n == Len(q)
            \* the raw sample document sample i was made from
            raw(i) == q[((i - 1) % n) + 1]
        IN  /\ Len(doc.locations) = Cardinality(FrameTriples(q))
            /\ { LocationTriple(doc, doc.locations[i]) : i \in DOMAIN doc.locations }
                 = FrameTriples(q)
            /\ Len(doc.functions) = Cardinality(FrameFunctions(q))
            /\ Range(doc.functions) = FrameFunctions(q)
            /\ \A i1 \in DOMAIN doc.samples, i2 \in DOMAIN doc.samples :
                 \A j1 \in DOMAIN doc.samples[i1].stack :
                   \A j2 \in DOMAIN doc.samples[i2].stack :
                     FrameTriple(raw(i1), j1) = FrameTriple(raw(i2), j2)
                        => doc.samples[i1].stack[j1] = doc.samples[i2].stack[j2]

\* A document was returned for samples in which a triple is repeated.
C10_Witness ==
    /\ ser_calls # <<>>
    /\ FrameCount(ser_source.samples) > Cardinality(FrameTriples(ser_source.samples))
    /\ Cardinality(FrameTriples(ser_source.samples)) > 1

\* ---------------------------------------------------------------------- C11
\* s is t, or t with entries taken off its end.
IsPrefix(s, t) == Len(s) <= Len(t) /\ \A i \in DOMAIN s : s[i] = t[i]

\* C11: every step of the serializer leaves each entry of functions and of
\* locations at its index, unchanged: the tables only grow at their end, so
\* an index that was assigned denotes the same entry ever after.
C11_StableIndices ==
    [][ /\ IsPrefix(ser.functions, ser'.functions)
        /\ IsPrefix(ser.locations, ser'.locations) ]_vars

\* Both tables grew after their first entry was assigned, and a later frame
\* was resolved to that first location again.
C11_Witness ==
    /\ Len(ser.functions) >= 2
    /\ Len(ser.locations) >= 2
    /\ \E i \in DOMAIN ser.samples :
         /\ i >= 2
         /\ 0 \in Range(ser.samples[i].stack)
         /\ \E k \in 1..(i - 1) : \E x \in Range(ser.samples[k].stack) : x >= 1

\* ---------------------------------------------------------------------- C12
\* The (function, line) pair of frame j of a raw sample.
FramePair(sample, j) ==
    <<ExtractFunctionFromFrame(sample.frames[j]), sample.linenos[j]>>

\* Location index x of a document resolves, through locations and functions,
\* to the pair fl.
ResolvesTo(doc, x, fl) ==
    /\ x + 1 \in DOMAIN doc.locations
    /\ doc.locations[x + 1].function_index + 1 \in DOMAIN doc.functions
    /\ <<doc.functions[doc.locations[x + 1].function_index + 1],
         doc.locations[x + 1].lineno>> = fl

C13_SerializePure ==
    [][ /\ ser_source' = ser_source
        /\ ser_calls' # ser_calls =>
              ser_calls'[Len(ser_calls')] = ser_calls'[1] ]_vars

\* ---------------------------------------------------------------------- C14
\* C14: a start() whose signal handler installation fails reports the
\* failure to its caller and leaves the scheduler Idle and unconfigured: the
\* failure never ends the process, and no Profile or flusher thread made by
\* the failed call is left behind.
C14_SetupFailureReported ==
    /\ proc # "panic: sigaction failed"
    /\ sched_profile = 0 => (profiles = <<>> /\ flusher = <<>> /\ timers = {})

\* ---------------------------------------------------------------------- C15
\* C15: once stop() has returned a document the scheduler is Stopped for
\* good: no later step stages a sample into the Profile of that document or
\* flushes it, no later start() makes a new Profile, and no later stop()
\* returns a document.
C15_StoppedIsTerminal ==
    [][ ret.value = "document" =>
          /\ profiles'[ret.profile] = profiles[ret.profile]
          /\ Len(profiles') = Len(profiles)
          /\ sched_profile' = sched_profile
          /\ ~(spc = "reading" /\ spc' = "idle") ]_vars

\* ---------------------------------------------------------------------- C16
\* The timers installed on Ruby thread t.
TimersOf(t) == { timer \in timers : timer[1] = t }

\* C16: in every reachable state, whatever start() calls were made and
\* whatever their target arrays repeat, a thread has at most one timer.
C16_OneTimerPerThread == \A t \in Threads : Cardinality(TimersOf(t)) <= 1

\* ---------------------------------------------------------------------- C17
\* The samples q are in capture order thread by thread: of two samples of
\* one thread the later one has no smaller timestamp.
InCaptureOrder(q) ==
    \A i \in DOMAIN q : \A k \in DOMAIN q :
        (i < k /\ q[i].ruby_thread = q[k].ruby_thread)
            => q[i].timestamp <= q[k].timestamp

\* The samples of document doc are the raw samples q, one for one in order.
SamplesInOrder(doc, q) ==
    /\ Len(doc.samples) = Len(q)
    /\ \A i \in DOMAIN q :
         /\ i \in DOMAIN doc.samples
         /\ doc.samples[i].ruby_thread_id = Some(q[i].ruby_thread)
         /\ Len(doc.samples[i].stack) = Len(q[i].frames)
         /\ \A j \in DOMAIN q[i].frames :
              ResolvesTo(doc, doc.samples[i].stack[j], FramePair(q[i], j))

C18_FlusherNeverSkips == \A p \in DOMAIN flusher : flusher[p].log # "failed"

\* ---------------------------------------------------------------------- C19
\* All the samples a Profile holds: the durable ones, then the staged ones.
AllSamples(profile) == profile.samples \o profile.temporary_sample_buffer

\* This step is a signal handler's successful push into Profile p.
StagesInto(p) ==
    \E t \in Threads : hpc[t] = "locked" /\ hargs[t] = p /\ hpc'[t] = "idle"

\* This step is a flush of Profile p, by its flusher thread or by stop().
Flushes(p) ==
    \/ flusher[p].pc = "locked" /\ flusher'[p].pc = "sleep"
    \/ spc = "flushing" /\ sprof = p /\ spc' = "flushed"

\* C19: a successful stage operation adds exactly one sample to those a
\* Profile holds and no other step adds or removes one or changes their
\* order, so staged plus durable samples are as many as the successful
\* stage operations; a flush leaves the staging buffer empty; and no sample
\* is both staged and durable.
C19_SamplesConserved ==
    [][ \A p \in DOMAIN profiles :
          /\ StagesInto(p) =>
                /\ Len(AllSamples(profiles'[p])) = Len(AllSamples(profiles[p])) + 1
                /\ IsPrefix(AllSamples(profiles[p]), AllSamples(profiles'[p]))
          /\ ~StagesInto(p) => AllSamples(profiles'[p]) = AllSamples(profiles[p])
          /\ Flushes(p) => profiles'[p].temporary_sample_buffer = <<>>
          /\ Range(profiles'[p].samples)
                \cap Range(profiles'[p].temporary_sample_buffer) = {} ]_vars

\* A Profile holds a durable sample, which a flush promoted, and a sample
\* staged after that flush.
C19_Witness ==
    \E p \in DOMAIN profiles :
        /\ Len(profiles[p].samples) >= 1
        /\ Len(profiles[p].temporary_sample_buffer) >= 1

\* ---------------------------------------------------------------------- C20
\* The parties at a place in their code where they write Profile p: the
\* signal handlers, the flusher thread and stop() in its final flush.
Writers(p) ==
    { <<"handler", t>> : t \in { u \in Threads : hpc[u] = "locked" /\ hargs[u] = p } }
    \cup (IF flusher[p].pc = "locked" THEN { <<"flusher", p>> } ELSE {})
    \cup (IF spc = "flushing" /\ sprof = p THEN { <<"stop", 0>> } ELSE {})

\* The parties at a place where they read Profile p: dmark, and stop() when
\* it serializes.
Readers(p) ==
    (IF gpc = "marking" /\ gprof = p THEN { <<"dmark", 0>> } ELSE {})
    \cup (IF spc = "reading" /\ sprof = p THEN { <<"stop", 0>> } ELSE {})

\* C20: after every step, a Profile has at most one party writing it, that
\* party holds the lock exclusively (no reader is inside), and the parties
\* reading it are the holders of shared access; a step changes a Profile only
\* if a party was writing it; the traversal dmark starts only with a Profile
\* set and no writer on its lock, changes no Profile, and does nothing
\* while the scheduler is Idle.
C20_ProfileAccessExclusive ==
    [][ /\ \A p \in DOMAIN profiles' :
              /\ Cardinality(Writers(p)') <= 1
              /\ Writers(p)' # {} =>
                    /\ Readers(p)' = {}
                    /\ lock'[p].readers = 0
                    /\ \A w \in Writers(p)' : lock'[p].writer = w[1]
              /\ Writers(p)' = {} => lock'[p].writer = "none"
              /\ Cardinality(Readers(p)') = lock'[p].readers
        /\ \A p \in DOMAIN profiles :
              profiles'[p] # profiles[p] => Writers(p) # {}
        /\ gpc' # gpc => profiles' = profiles
        /\ (gpc = "idle" /\ gpc' = "marking") =>
              /\ SchedulerState = "Running"
              /\ lock[gprof'].writer = "none"
        /\ (gpc = "idle" /\ SchedulerState = "Idle") =>
              (gpc' = "idle" /\ gprof' = gprof) ]_vars

\* A signal handler holds the write guard of a Profile whose flusher thread
\* and stop() both asked for the lock in the meantime and were refused.
C20_Witness ==
    \E p \in DOMAIN profiles :
        /\ Writers(p) = { <<"handler", GcThread>> }
        /\ flusher[p].log = "failed"
        /\ ret = [value |-> "Qfalse", profile |-> p, document |-> NoDocument]

=============================================================================
